---- MODULE Spec2Model ----
(***************************************************************************)
(* A model of the Signal KPI pipeline: the payload normalizers             *)
(* (src/src/transforms.py), the KPI builders (src/src/kpis.py) and the     *)
(* orchestration of one run (src/src/main.py, config.py, client.py,        *)
(* db.py).                                                                 *)
(*                                                                         *)
(* Numbers are integers; a ratio is kept as a pair (numerator,             *)
(* denominator) and compared by cross-multiplication, so no rounding is    *)
(* modelled.  A calendar date is the number of its day.                    *)
(***************************************************************************)
EXTENDS Integers, Sequences, FiniteSets, TLC

VARIABLES
    fn,     \* the function under test in a function-level specification
    arg,    \* its input
    res     \* its result, NoRes before the call

fvars == <<fn, arg, res>>

\* The state of a run of run_pipeline and of the database it writes to.
VARIABLES
    run,                \* the number of the run (of the process) in progress
    pc,                 \* the call run_pipeline makes next; "done", "aborted"
    environ,            \* os.environ and the cookie file of this run
    settings,           \* Settings.from_env()
    extraction_ts,      \* extraction_ts_utc: datetime.now() of this run
    payloads,           \* weekly_payload .. berth_payload
    frames,             \* weekly_df .. berth_df
    kpis,               \* kpi_weekly .. kpi_health
    written,            \* how many tables write_tables has written
    error,              \* the exception that ended the run
    db,                 \* the persisted tables
    calls,              \* history: fetch_json calls and HTTP requests of this run
    trail,              \* history: the calls of this run that returned
    dbBefore            \* history: db when this run started

pvars == <<run, pc, environ, settings, extraction_ts, payloads, frames, kpis,
           written, error, db, calls, trail, dbBefore>>

vars == <<fvars, pvars>>

\* No run of the pipeline: a function is called on its own.
Unused == "unused"
NoPipeline ==
    /\ run = 0 /\ pc = Unused /\ environ = Unused /\ settings = Unused
    /\ extraction_ts = 0 /\ payloads = Unused /\ frames = Unused /\ kpis = Unused
    /\ written = 0 /\ error = Unused /\ db = Unused /\ calls = Unused
    /\ trail = <<>> /\ dbBefore = Unused

NoRes == [kind |-> "none"]

-----------------------------------------------------------------------------
(* JSON values as Python sees them after response.json().                  *)

Absent == [k |-> "absent", s |-> "", n |-> 0]
Null == [k |-> "null", s |-> "", n |-> 0]
Str(x) == [k |-> "str", s |-> x, n |-> 0]
Num(i) == [k |-> "num", s |-> "", n |-> i]
JList == [k |-> "list", s |-> "", n |-> 0]

\* A JSON object with the given (key, value) pairs.
Obj(pairs) ==
    [map |-> "dict",
     f |-> [key \in {p[1] : p \in pairs} |-> (CHOOSE p \in pairs : p[1] = key)[2]]]

\* An item of the list that is not a JSON object: a number, null or a list.
NonMap(kind) == [map |-> kind, f |-> <<>>]

\* item.get(key), Absent standing for the missing key.
Get(item, key) == IF key \in DOMAIN item.f THEN item.f[key] ELSE Absent

-----------------------------------------------------------------------------
(* Outcomes of a call: a returned dataset or a raised exception.           *)

\* why: which raise statement ("payload", "missing", "date", "empty",
\* "non-numeric") or, for an exception Python or pandas raises, "".
\* item: the position (from 1) of the item being read; keys: the aliases tried.
Ok(rows) ==
    [kind |-> "ok", rows |-> rows, exc |-> "", why |-> "", item |-> 0, keys |-> <<>>]
Raise(exc, why, item, keys) ==
    [kind |-> "raise", rows |-> <<>>, exc |-> exc, why |-> why, item |-> item,
     keys |-> keys]

\* A looked-up value, or the exception the lookup raised.
Got(v) == [kind |-> "ok", v |-> v, exc |-> "", why |-> "", keys |-> <<>>]
Threw(exc, why, keys) ==
    [kind |-> "raise", v |-> Absent, exc |-> exc, why |-> why, keys |-> keys]

-----------------------------------------------------------------------------
(* str.strip, pd.to_numeric and date parsing on the strings of the model.  *)

strip(s) ==
    CASE s = " loaded " -> "loaded"
      [] s = "Empty " -> "Empty"
      [] s = " 13+ Days" -> "13+ Days"
      [] s = " MSC Anna " -> "MSC Anna"
      [] s = " Import" -> "Import"
      [] OTHER -> s

\* float(s) for a string of the model: the number, or not a number.
NumericStrings == { "7", "12" }
NumberOfString(s) == CASE s = "7" -> 7 [] s = "12" -> 12 [] OTHER -> 0

\* One element of pd.to_numeric(column, errors="coerce").
to_numeric(v) ==
    CASE v.k = "num" -> [nan |-> FALSE, n |-> v.n]
      [] v.k = "str" /\ v.s \in NumericStrings -> [nan |-> FALSE, n |-> NumberOfString(v.s)]
      [] OTHER -> [nan |-> TRUE, n |-> 0]

\* The strings pd.to_datetime parses, with the day each one names.
DateStrings == { "2024-01-01", "2024-01-08", "2024-01-15", "2024-01-22", "01/29/2024" }
DayOfString(s) ==
    CASE s = "2024-01-01" -> 19723
      [] s = "2024-01-08" -> 19730
      [] s = "2024-01-15" -> 19737
      [] s = "2024-01-22" -> 19744
      [] s = "01/29/2024" -> 19751
      [] OTHER -> 0

-----------------------------------------------------------------------------
(* transforms.py                                                           *)

\* A value under a top-level key of a payload: absent, a list (its items), a
\* nested object (items: the list under its own "items" key) or anything else.
NoEntry == [k |-> "absent", items |-> <<>>]
ListEntry(items) == [k |-> "list", items |-> items]
DictEntry(items) == [k |-> "dict", items |-> items]
OtherEntry == [k |-> "other", items |-> <<>>]

\* A payload: a bare list, an object, or another JSON value.
BareList(items) == [shape |-> "list", items |-> items, top |-> <<>>]
Wrapped(entries) ==
    [shape |-> "dict", items |-> <<>>,
     top |-> [t \in {p[1] : p \in entries} |-> (CHOOSE p \in entries : p[1] = t)[2]]]
Scalar == [shape |-> "other", items |-> <<>>, top |-> <<>>]

\* payload.get(key), NoEntry standing for the missing key.
Top(payload, key) == IF key \in DOMAIN payload.top THEN payload.top[key] ELSE NoEntry

RECURSIVE FirstListKey(_, _, _)
FirstListKey(payload, keys, j) ==
    IF j > Len(keys) THEN 0
    ELSE IF Top(payload, keys[j]).k = "list" THEN j
    ELSE FirstListKey(payload, keys, j + 1)

_extract_list(payload, keys) ==
    IF payload.shape = "list" THEN Ok(payload.items)
    ELSE IF payload.shape = "dict" /\ FirstListKey(payload, keys, 1) > 0
    THEN Ok(Top(payload, keys[FirstListKey(payload, keys, 1)]).items)
    ELSE Raise("DataShapeError", "payload", 0, keys)

RECURSIVE FirstPresentKey(_, _, _)
FirstPresentKey(item, keys, j) ==
    IF j > Len(keys) THEN 0
    ELSE IF Get(item, keys[j]).k \notin {"absent", "null"} THEN j
    ELSE FirstPresentKey(item, keys, j + 1)

\* _get_required_key without "and item[key] is not None": a null counts as
\* a value.
get_required_key_null_counts(item, keys) ==
    IF item.map \in {"num", "null"} THEN Threw("TypeError", "", <<>>)
    ELSE IF item.map = "dict" /\ \E j \in 1..Len(keys) : keys[j] \in DOMAIN item.f
    THEN Got(item.f[keys[CHOOSE j \in 1..Len(keys) :
                            /\ keys[j] \in DOMAIN item.f
                            /\ \A h \in 1..(j - 1) : keys[h] \notin DOMAIN item.f]])
    ELSE Threw("DataShapeError", "missing", keys)

\* "key in item" raises TypeError on a number or on None, and is False for
\* every key on a list.
_get_required_key(item, keys) ==
    IF item.map \in {"num", "null"} THEN Threw("TypeError", "", <<>>)
    ELSE IF item.map = "dict" /\ FirstPresentKey(item, keys, 1) > 0
    THEN Got(Get(item, keys[FirstPresentKey(item, keys, 1)]))
    ELSE Threw("DataShapeError", "missing", keys)

\* The day of the date; pd.to_datetime raises a ValueError that is no
\* DataShapeError on a string it cannot parse.  Epoch seconds are taken in
\* the range datetime.utcfromtimestamp accepts.
_parse_date(value) ==
    CASE value.k = "num" -> Got(value.n \div 86400)
      [] value.k = "str" /\ value.s \in DateStrings -> Got(DayOfString(value.s))
      [] value.k = "str" /\ value.s \notin DateStrings -> Threw("ValueError", "", <<>>)
      [] OTHER -> Threw("DataShapeError", "date", <<>>)

\* value.strip() of a required string field: AttributeError when the value
\* is no string.
StripField(got) ==
    IF got.kind = "raise" THEN got
    ELSE IF got.v.k # "str" THEN Threw("AttributeError", "", <<>>)
    ELSE Got(strip(got.v.s))

\* The numeric column coerced: the rows with the column as numbers, or the
\* "non-numeric" DataShapeError when some element is NaN; "empty" when the
\* frame has no rows.
Coerce(rows, col) ==
    IF rows = <<>> THEN Raise("DataShapeError", "empty", 0, <<>>)
    ELSE IF \E i \in 1..Len(rows) : to_numeric(rows[i][col]).nan
    THEN Raise("DataShapeError", "non-numeric", 0, <<>>)
    ELSE Ok([i \in 1..Len(rows) |-> [rows[i] EXCEPT ![col] = to_numeric(rows[i][col]).n]])

WeekKeys == <<"weekStartDate", "week_start_date", "week", "startDate", "date">>
InboundKeys ==
    <<"inboundFullContainers", "inbound_full_containers", "inboundFullTeu",
      "inbound_full_teu", "inboundFullTEU">>
LoadTypeKeys == <<"loadType", "load_type", "status">>
StatusKeys == <<"status", "containerStatus", "loadType">>
BucketKeys == <<"bucket", "agingBucket", "ageBucket", "aging_bucket">>
ContainerKeys == <<"containers", "containerCount", "value", "count">>
VesselKeys == <<"vessel", "vesselName", "name">>
HoursKeys == <<"timeAtBerthHours", "hoursAtBerth", "time_at_berth_hours", "hours">>

\* One iteration of a normalizer's loop: the row appended, or the exception.
WeeklyRow(item) ==
    LET k == _get_required_key(item, WeekKeys)
        d == IF k.kind = "raise" THEN k ELSE _parse_date(k.v)
        n == _get_required_key(item, InboundKeys)
    IN  IF d.kind = "raise" THEN d
        ELSE IF n.kind = "raise" THEN n
        ELSE Got([week_start_date |-> d.v, inbound_full_containers |-> n.v])

TerminalRow(item) ==
    LET l == StripField(_get_required_key(item, LoadTypeKeys))
        b == StripField(_get_required_key(item, BucketKeys))
        c == _get_required_key(item, ContainerKeys)
    IN  IF l.kind = "raise" THEN l
        ELSE IF b.kind = "raise" THEN b
        ELSE IF c.kind = "raise" THEN c
        ELSE Got([load_type |-> l.v, bucket |-> b.v, containers |-> c.v])

OutgateRow(item) ==
    LET s == StripField(_get_required_key(item, StatusKeys))
        b == StripField(_get_required_key(item, BucketKeys))
        c == _get_required_key(item, ContainerKeys)
    IN  IF s.kind = "raise" THEN s
        ELSE IF b.kind = "raise" THEN b
        ELSE IF c.kind = "raise" THEN c
        ELSE Got([status |-> s.v, bucket |-> b.v, containers |-> c.v])

\* bool(v) of a JSON value, for "a or b".
Truthy(v) == (v.k = "str" /\ v.s # "") \/ (v.k = "num" /\ v.n # 0)

\* item.get("terminal") or item.get("terminalName")
TerminalOf(item) ==
    LET a == Get(item, "terminal")
        b == Get(item, "terminalName")
    IN  IF Truthy(a) THEN a ELSE IF b.k = "absent" THEN Null ELSE b

BerthRow(item) ==
    LET v == StripField(_get_required_key(item, VesselKeys))
        h == _get_required_key(item, HoursKeys)
    IN  IF v.kind = "raise" THEN v
        ELSE IF h.kind = "raise" THEN h
        ELSE Got([vessel |-> v.v, time_at_berth_hours |-> h.v,
                  terminal |-> TerminalOf(item)])

\* The loop "for item in items": the rows in list order, or the exception
\* of the first iteration that raises.
RECURSIVE Rows(_, _, _, _)
Rows(which, items, i, rows) ==
    IF i > Len(items) THEN Ok(rows)
    ELSE LET r == CASE which = "weekly" -> WeeklyRow(items[i])
                    [] which = "terminal" -> TerminalRow(items[i])
                    [] which = "outgate" -> OutgateRow(items[i])
                    [] which = "berth" -> BerthRow(items[i])
         IN  IF r.kind = "raise" THEN Raise(r.exc, r.why, i, r.keys)
             ELSE Rows(which, items, i + 1, Append(rows, r.v))

Normalize(which, listKeys, col, payload) ==
    LET items == _extract_list(payload, listKeys)
        rows == IF items.kind = "raise" THEN items ELSE Rows(which, items.rows, 1, <<>>)
    IN  IF rows.kind = "raise" THEN rows ELSE Coerce(rows.rows, col)

parse_weekly_volumes(payload) ==
    Normalize("weekly", <<"weeklyVolumesComparison", "data", "items">>,
              "inbound_full_containers", payload)

parse_terminal_containers(payload) ==
    Normalize("terminal", <<"ContainersAtTerminalData", "data", "items">>,
              "containers", payload)

parse_outgate_metrics(payload) ==
    Normalize("outgate", <<"FetchOutgatedContainerMetricsData", "data", "items">>,
              "containers", payload)

parse_berth_data(payload) ==
    Normalize("berth", <<"FetchQuickviewDashboardBerthData", "vessels", "data", "items">>,
              "time_at_berth_hours", payload)

-----------------------------------------------------------------------------
(* The normalizers on bounded payloads.                                    *)

MaxItems == 2

WeeklyItems ==
    { Obj({<<"weekStartDate", Str("2024-01-01")>>, <<"inboundFullContainers", Num(100)>>}),
      Obj({<<"week", Str("2024-01-08")>>, <<"inbound_full_teu", Str("12")>>}),
      Obj({<<"weekStartDate", Null>>, <<"date", Num(1705276800)>>,
           <<"inbound_full_containers", Num(130)>>, <<"inboundFullTeu", Num(5)>>}),
      Obj({<<"week", Str("2024-01-22")>>}),
      Obj({<<"week", Str("2024-01-22")>>, <<"inboundFullContainers", Null>>}),
      Obj({<<"inboundFullContainers", Num(7)>>}),
      Obj({<<"week", Str("next week")>>, <<"inboundFullContainers", Num(1)>>}),
      Obj({<<"week", Str("2024-01-01")>>, <<"inboundFullContainers", Str("n/a")>>}),
      Obj({<<"week", JList>>, <<"inboundFullContainers", Num(3)>>}),
      NonMap("num"), NonMap("list") }

TerminalItems ==
    { Obj({<<"loadType", Str("loaded")>>, <<"bucket", Str("9-12 Days")>>,
           <<"containers", Num(10)>>}),
      Obj({<<"load_type", Str(" loaded ")>>, <<"agingBucket", Str(" 13+ Days")>>,
           <<"containerCount", Str("7")>>}),
      Obj({<<"loadType", Null>>, <<"status", Str("Empty ")>>, <<"bucket", Str("0-4 Days")>>,
           <<"value", Num(0)>>, <<"count", Num(5)>>}),
      Obj({<<"loadType", Str("loaded")>>, <<"bucket", Str("0-4 Days")>>}),
      Obj({<<"loadType", Str("loaded")>>, <<"bucket", Str("0-4 Days")>>,
           <<"containers", Null>>, <<"count", Null>>}),
      Obj({<<"bucket", Str("0-4 Days")>>, <<"containers", Num(4)>>}),
      Obj({<<"loadType", Str("loaded")>>}),
      Obj({<<"loadType", Num(3)>>, <<"bucket", Str("0-4 Days")>>, <<"containers", Num(4)>>}),
      Obj({<<"loadType", Str("empty")>>, <<"bucket", Str("0-4 Days")>>,
           <<"containers", Str("n/a")>>}),
      NonMap("null"), NonMap("list") }

OutgateItems ==
    { Obj({<<"status", Str("Import")>>, <<"bucket", Str("5-8 Days")>>,
           <<"containers", Num(10)>>}),
      Obj({<<"containerStatus", Str(" Import")>>, <<"ageBucket", Str(" 13+ Days")>>,
           <<"value", Str("12")>>}),
      Obj({<<"status", Null>>, <<"loadType", Str("NONE")>>, <<"aging_bucket", Str("0-4 Days")>>,
           <<"containerCount", Num(2)>>, <<"count", Num(9)>>}),
      Obj({<<"status", Str("Export")>>, <<"bucket", Str("0-4 Days")>>}),
      Obj({<<"bucket", Str("0-4 Days")>>, <<"containers", Num(4)>>}),
      Obj({<<"status", Str("Export")>>, <<"containers", Num(4)>>}),
      Obj({<<"status", Str("Export")>>, <<"bucket", Num(5)>>, <<"containers", Num(4)>>}),
      Obj({<<"status", Str("Export")>>, <<"bucket", Str("0-4 Days")>>,
           <<"containers", Str("many")>>}),
      NonMap("num") }

BerthItems ==
    { Obj({<<"vessel", Str("MSC Anna")>>, <<"timeAtBerthHours", Num(30)>>,
           <<"terminal", Str("T1")>>}),
      Obj({<<"vesselName", Str(" MSC Anna ")>>, <<"hours", Str("12")>>,
           <<"terminal", Null>>, <<"terminalName", Str("T2")>>}),
      Obj({<<"vessel", Null>>, <<"name", Str("Ever Ace")>>, <<"hoursAtBerth", Num(7)>>,
           <<"time_at_berth_hours", Num(99)>>}),
      Obj({<<"vessel", Str("Ever Ace")>>}),
      Obj({<<"vessel", Str("Ever Ace")>>, <<"hours", Null>>}),
      Obj({<<"timeAtBerthHours", Num(30)>>}),
      Obj({<<"vessel", Num(9)>>, <<"timeAtBerthHours", Num(30)>>}),
      Obj({<<"vessel", Str("Ever Ace")>>, <<"timeAtBerthHours", Str("long")>>}),
      NonMap("num"), NonMap("list") }

\* The lists of at most MaxItems items of a set.
ListsOf(S) == UNION { [1..n -> S] : n \in 0..MaxItems }

\* The payload shapes a list of items arrives in; own: the feed's own key.
PayloadsOf(items, own) ==
    { BareList(items),
      Wrapped({<<"data", DictEntry(items)>>}),
      Wrapped({<<"data", ListEntry(items)>>}),
      Wrapped({<<"items", ListEntry(items)>>}),
      Wrapped({<<own, ListEntry(items)>>}),
      Wrapped({<<"data", OtherEntry>>, <<"items", ListEntry(items)>>}),
      Scalar }

Normalizers ==
    { "parse_weekly_volumes", "parse_terminal_containers", "parse_outgate_metrics",
      "parse_berth_data" }

ItemsFor(f) ==
    CASE f = "parse_weekly_volumes" -> WeeklyItems
      [] f = "parse_terminal_containers" -> TerminalItems
      [] f = "parse_outgate_metrics" -> OutgateItems
      [] f = "parse_berth_data" -> BerthItems

OwnKey(f) ==
    CASE f = "parse_weekly_volumes" -> "weeklyVolumesComparison"
      [] f = "parse_terminal_containers" -> "ContainersAtTerminalData"
      [] f = "parse_outgate_metrics" -> "FetchOutgatedContainerMetricsData"
      [] f = "parse_berth_data" -> "FetchQuickviewDashboardBerthData"

InitNormalize ==
    /\ NoPipeline
    /\ fn \in Normalizers
    /\ arg \in UNION { PayloadsOf(l, OwnKey(fn)) : l \in ListsOf(ItemsFor(fn)) }
    /\ res = NoRes

CallWeekly ==
    /\ fn = "parse_weekly_volumes" /\ res = NoRes
    /\ res' = parse_weekly_volumes(arg)
    /\ UNCHANGED <<fn, arg, pvars>>

CallTerminal ==
    /\ fn = "parse_terminal_containers" /\ res = NoRes
    /\ res' = parse_terminal_containers(arg)
    /\ UNCHANGED <<fn, arg, pvars>>

CallOutgate ==
    /\ fn = "parse_outgate_metrics" /\ res = NoRes
    /\ res' = parse_outgate_metrics(arg)
    /\ UNCHANGED <<fn, arg, pvars>>

CallBerth ==
    /\ fn = "parse_berth_data" /\ res = NoRes
    /\ res' = parse_berth_data(arg)
    /\ UNCHANGED <<fn, arg, pvars>>

NextNormalize == CallWeekly \/ CallTerminal \/ CallOutgate \/ CallBerth

SpecNormalize == InitNormalize /\ [][NextNormalize]_vars

-----------------------------------------------------------------------------
(* Properties of the normalizers.                                          *)

Parse(f, payload) ==
    CASE f = "parse_weekly_volumes" -> parse_weekly_volumes(payload)
      [] f = "parse_terminal_containers" -> parse_terminal_containers(payload)
      [] f = "parse_outgate_metrics" -> parse_outgate_metrics(payload)
      [] f = "parse_berth_data" -> parse_berth_data(payload)

Called == fn \in Normalizers /\ res # NoRes

\* C3: every call of a normalizer ends in a dataset of at least one row or in
\* a DataShapeError, whatever the payload holds.
C3_DatasetOrShapeError ==
    Called =>
        \/ res.kind = "ok" /\ Len(res.rows) >= 1
        \/ res.kind = "raise" /\ res.exc = "DataShapeError"

\* The payload is {"data": {"items": <items>}} and nothing else.
IsNested(payload) ==
    /\ payload.shape = "dict"
    /\ DOMAIN payload.top = {"data"}
    /\ payload.top["data"].k = "dict"

\* C4: a payload {"data": {"items": <items>}} of well-formed items normalizes
\* to the dataset the bare list <items> normalizes to.
C4_NestedEqualsBare ==
    (Called /\ IsNested(arg)
        /\ Parse(fn, BareList(arg.top["data"].items)).kind = "ok")
    => res = Parse(fn, BareList(arg.top["data"].items))

\* The required fields of a feed in the order the loop reads them, each with
\* its aliases and what the loop does with the value before the next field.
Field(keys, use) == [keys |-> keys, use |-> use]
FieldsOf(f) ==
    CASE f = "parse_weekly_volumes" ->
            <<Field(WeekKeys, "date"), Field(InboundKeys, "number")>>
      [] f = "parse_terminal_containers" ->
            <<Field(LoadTypeKeys, "string"), Field(BucketKeys, "string"),
              Field(ContainerKeys, "number")>>
      [] f = "parse_outgate_metrics" ->
            <<Field(StatusKeys, "string"), Field(BucketKeys, "string"),
              Field(ContainerKeys, "number")>>
      [] f = "parse_berth_data" ->
            <<Field(VesselKeys, "string"), Field(HoursKeys, "number")>>

Present(item, key) == key \in DOMAIN item.f /\ item.f[key].k # "null"
Has(item, keys) == \E j \in 1..Len(keys) : Present(item, keys[j])
\* The value under the first alias, in alias order, that is present and non-null.
FirstValue(item, keys) ==
    item.f[keys[CHOOSE j \in 1..Len(keys) :
                  /\ Present(item, keys[j])
                  /\ \A h \in 1..(j - 1) : ~Present(item, keys[h])]]

\* The field is there and the loop's use of it raises nothing.
FieldFine(item, fld) ==
    /\ Has(item, fld.keys)
    /\ fld.use = "string" => FirstValue(item, fld.keys).k = "str"
    /\ fld.use = "date" =>
          \/ FirstValue(item, fld.keys).k = "num"
          \/ FirstValue(item, fld.keys).k = "str" /\ FirstValue(item, fld.keys).s \in DateStrings

\* The item is an object whose every required field is there and usable, its
\* number possibly not numeric.
RowFine(f, item) ==
    item.map = "dict" /\ \A m \in 1..Len(FieldsOf(f)) : FieldFine(item, FieldsOf(f)[m])

\* The item lacks some required field under all of its aliases.
Lacking(f, item) ==
    item.map = "dict" /\ \E m \in 1..Len(FieldsOf(f)) : ~Has(item, FieldsOf(f)[m].keys)

\* The list of items the normalizer reads from the payload, when it finds one.
Located(f, payload) ==
    payload.shape = "list" \/ (payload.shape = "dict" /\
        \E t \in {OwnKey(f), "data", "items"} \cup
                 (IF f = "parse_berth_data" THEN {"vessels"} ELSE {}) :
            t \in DOMAIN payload.top /\ payload.top[t].k = "list")
ItemsOf(f, payload) ==
    IF payload.shape = "list" THEN payload.items
    ELSE LET order == IF f = "parse_berth_data"
                      THEN <<OwnKey(f), "vessels", "data", "items">>
                      ELSE <<OwnKey(f), "data", "items">>
             IsList(t) == t \in DOMAIN payload.top /\ payload.top[t].k = "list"
             j == CHOOSE j \in 1..Len(order) :
                      IsList(order[j]) /\ \A h \in 1..(j - 1) : ~IsList(order[h])
         IN  payload.top[order[j]].items

\* C5 as stated: when some item lacks a required field, the call raises the
\* DataShapeError of a missing field about the first such item, listing the
\* aliases of a field that item lacks, whatever the other items hold.
C5_FirstLackingItemRaises ==
    (Called /\ Located(fn, arg)) =>
        LET items == ItemsOf(fn, arg) IN
        \A i \in 1..Len(items) :
            (Lacking(fn, items[i]) /\ \A j \in 1..(i - 1) : ~Lacking(fn, items[j]))
            => /\ res.kind = "raise" /\ res.exc = "DataShapeError" /\ res.why = "missing"
               /\ res.item = i
               /\ \E m \in 1..Len(FieldsOf(fn)) :
                      ~Has(items[i], FieldsOf(fn)[m].keys) /\ res.keys = FieldsOf(fn)[m].keys

\* C5, amended: when the items before item i are objects with every required
\* field there and usable (their numbers numeric or not), and item i lacks its
\* m-th required field with the fields read before it usable, the call raises
\* the DataShapeError of a missing field, about item i, listing all the aliases
\* of that field; and every row of a returned dataset holds, for each required
\* field, the value of the first alias present and non-null.
C5_MissingFieldAfterFineItems ==
    (Called /\ Located(fn, arg)) =>
        LET items == ItemsOf(fn, arg)
            flds == FieldsOf(fn)
        IN  /\ \A i \in 1..Len(items) : \A m \in 1..Len(flds) :
                  ( /\ \A j \in 1..(i - 1) : RowFine(fn, items[j])
                    /\ items[i].map = "dict"
                    /\ ~Has(items[i], flds[m].keys)
                    /\ \A h \in 1..(m - 1) : FieldFine(items[i], flds[h]) )
                  => res = Raise("DataShapeError", "missing", i, flds[m].keys)
            /\ res.kind = "ok" =>
                  /\ Len(res.rows) = Len(items)
                  /\ \A i \in 1..Len(items) :
                        LET v == FirstValue(items[i], flds[Len(flds)].keys)
                            col == IF fn = "parse_weekly_volumes" THEN "inbound_full_containers"
                                   ELSE IF fn = "parse_berth_data" THEN "time_at_berth_hours"
                                   ELSE "containers"
                        IN  res.rows[i][col] = (IF v.k = "num" THEN v.n ELSE NumberOfString(v.s))

\* An earlier item holds a non-numeric number, the second item lacks a required
\* field, and the call has raised the missing-field error about the second.
C5_Witness ==
    /\ Called /\ arg.shape = "list" /\ Len(arg.items) = 2
    /\ RowFine(fn, arg.items[1])
    /\ to_numeric(FirstValue(arg.items[1], FieldsOf(fn)[Len(FieldsOf(fn))].keys)).nan
    /\ Lacking(fn, arg.items[2])
    /\ res.kind = "raise" /\ res.why = "missing" /\ res.item = 2 /\ Len(res.keys) >= 4

-----------------------------------------------------------------------------
(* kpis.py: arithmetic.  A float that is a quotient is kept as the pair     *)
(* of its numerator and denominator; x / 0 is what numpy gives: NaN for     *)
(* 0 / 0, +inf or -inf otherwise.                                           *)

Quot(num, den) == [num |-> num, den |-> den]
IsNaN(q) == q.den = 0 /\ q.num = 0

\* q >= t and q <= t for a quotient q and a threshold t = t.num / t.den with
\* t.den > 0; every comparison with NaN is False.
QuotGE(q, t) ==
    IF q.den > 0 THEN q.num * t.den >= t.num * q.den
    ELSE IF q.den < 0 THEN q.num * t.den <= t.num * q.den
    ELSE q.num > 0
QuotLE(q, t) ==
    IF q.den > 0 THEN q.num * t.den <= t.num * q.den
    ELSE IF q.den < 0 THEN q.num * t.den >= t.num * q.den
    ELSE q.num < 0

\* The value of a column a builder does not add (from_date / to_date unset).
NoColumn == "(no column)"
Tag(value) == IF value # "" THEN value ELSE NoColumn

-----------------------------------------------------------------------------
(* kpis.py: build_weekly_volume_pressure                                   *)

\* The results of df.sort_values(col): the orders of the row positions that
\* are ascending (descending) in col; rows with equal keys come in any order.
RECURSIVE SortOrders(_, _, _, _)
SortOrders(rows, col, ascending, left) ==
    IF left = {} THEN { <<>> }
    ELSE LET first == { i \in left : \A j \in left :
                          IF ascending THEN rows[i][col] <= rows[j][col]
                          ELSE rows[i][col] >= rows[j][col] }
         IN  UNION { { <<i>> \o rest : rest \in SortOrders(rows, col, ascending, left \ {i}) }
                     : i \in first }

sort_values(rows, col, ascending) == SortOrders(rows, col, ascending, DOMAIN rows)

Reorder(rows, order) == [i \in 1..Len(order) |-> rows[order[i]]]

\* rolling(window=4, min_periods=1): the sum and the number of observations
\* of the window ending at position i, kept as pandas keeps them: the new
\* observation is added and the one that left the window is removed.
RECURSIVE RollingSum(_, _)
RollingSum(values, i) ==
    IF i = 0 THEN 0
    ELSE RollingSum(values, i - 1) + values[i] - (IF i > 4 THEN values[i - 4] ELSE 0)
RollingCount(i) == IF i > 4 THEN 4 ELSE i

\* A rolling mean over all the observations so far: the window never slides.
rolling_mean_expanding(values, i) ==
    LET RECURSIVE Total(_)
        Total(h) == IF h = 0 THEN 0 ELSE Total(h - 1) + values[h]
    IN  Quot(Total(i), i)

rolling_mean(values, i) == Quot(RollingSum(values, i), RollingCount(i))

\* The flags assigned in the other order: HIGH overwrites LOW.
VolumeFlagHighLast(index, high_threshold, low_threshold) ==
    IF QuotGE(index, high_threshold) THEN "HIGH"
    ELSE IF QuotLE(index, low_threshold) THEN "LOW"
    ELSE "NORMAL"

\* df["flag"] = "NORMAL"; then HIGH where index >= high; then LOW where
\* index <= low.
VolumeFlag(index, high_threshold, low_threshold) ==
    LET f0 == "NORMAL"
        f1 == IF QuotGE(index, high_threshold) THEN "HIGH" ELSE f0
    IN  IF QuotLE(index, low_threshold) THEN "LOW" ELSE f1

\* order: the order sort_values put the rows in.
build_weekly_volume_pressure(weekly_df, order, extraction_ts_utc, from_date, to_date, high_threshold, low_threshold) ==
    LET df == Reorder(weekly_df, order)
        inbound == [i \in 1..Len(df) |-> df[i].inbound_full_containers]
    IN  [i \in 1..Len(df) |->
            LET avg == rolling_mean(inbound, i)
                \* inbound / (sum / count)
                index == Quot(inbound[i] * avg.den, avg.num)
            IN  [week_start_date |-> df[i].week_start_date,
                 inbound_full_containers |-> inbound[i],
                 rolling_4w_avg_teu |-> avg,
                 volume_pressure_index |-> index,
                 flag |-> VolumeFlag(index, high_threshold, low_threshold),
                 extraction_ts_utc |-> extraction_ts_utc,
                 from_date |-> Tag(from_date),
                 to_date |-> Tag(to_date)]]

-----------------------------------------------------------------------------
(* kpis.py: build_terminal_congestion, build_outgate_stress_by_status      *)

\* str.lower and the order of Python's string comparison, on the group keys
\* of the model.
lower(key) ==
    CASE key = "Loaded" -> "loaded"
      [] key = "Empty" -> "empty"
      [] key = "Export" -> "export"
      [] key = "Import" -> "import"
      [] key = "NONE" -> "none"
      [] OTHER -> key
StringRank(key) ==
    CASE key = "Empty" -> 1
      [] key = "Export" -> 2
      [] key = "Import" -> 3
      [] key = "Loaded" -> 4
      [] key = "NONE" -> 5
      [] key = "empty" -> 6
      [] key = "loaded" -> 7
      [] key = "reefer" -> 8

\* The keys of df.groupby(col), in the sorted order the groups are iterated.
RECURSIVE SortedKeys(_)
SortedKeys(keys) ==
    IF keys = {} THEN <<>>
    ELSE LET least == CHOOSE a \in keys : \A b \in keys : StringRank(a) <= StringRank(b)
         IN  <<least>> \o SortedKeys(keys \ {least})
GroupKeys(df, col) == SortedKeys({df[i][col] : i \in 1..Len(df)})

\* subset["containers"].sum() over the rows of a group (all of them, or
\* those whose bucket is in buckets).
RECURSIVE ContainerSum(_, _, _, _, _)
ContainerSum(df, col, key, buckets, i) ==
    IF i = 0 THEN 0
    ELSE ContainerSum(df, col, key, buckets, i - 1)
         + (IF df[i][col] = key /\ df[i].bucket \in buckets THEN df[i].containers ELSE 0)
AllBuckets(df) == {df[i].bucket : i \in 1..Len(df)}

\* The quotient without the test on total.
PctUnguarded(part, total) == Quot(part, total)

\* "congested / total if total else 0.0"
Pct(part, total) == IF total # 0 THEN Quot(part, total) ELSE Quot(0, 1)

TerminalFlag(load_type, congested_pct, loaded_high, empty_high) ==
    LET f0 == "NORMAL"
        f1 == IF lower(load_type) = "loaded" /\ QuotGE(congested_pct, loaded_high)
              THEN "HIGH" ELSE f0
    IN  IF lower(load_type) = "empty" /\ QuotGE(congested_pct, empty_high) THEN "HIGH" ELSE f1

build_terminal_congestion(terminal_df, extraction_ts_utc, from_date, to_date, congested_buckets, loaded_high, empty_high) ==
    LET keys == GroupKeys(terminal_df, "load_type")
        rows == [g \in 1..Len(keys) |->
            LET total == ContainerSum(terminal_df, "load_type", keys[g],
                                      AllBuckets(terminal_df), Len(terminal_df))
                congested == ContainerSum(terminal_df, "load_type", keys[g],
                                          congested_buckets, Len(terminal_df))
                congested_pct == Pct(congested, total)
            IN  [load_type |-> keys[g],
                 total_containers |-> total,
                 congested_containers |-> congested,
                 congested_pct |-> congested_pct,
                 flag |-> TerminalFlag(keys[g], congested_pct, loaded_high, empty_high),
                 extraction_ts_utc |-> extraction_ts_utc,
                 from_date |-> Tag(from_date),
                 to_date |-> Tag(to_date)]]
    IN  IF rows = <<>> THEN Raise("ValueError", "empty", 0, <<>>) ELSE Ok(rows)

build_outgate_stress_by_status(outgate_df, extraction_ts_utc, from_date, to_date, slow_buckets, slow_high) ==
    LET keys == GroupKeys(outgate_df, "status")
        rows == [g \in 1..Len(keys) |->
            LET total == ContainerSum(outgate_df, "status", keys[g],
                                      AllBuckets(outgate_df), Len(outgate_df))
                slow == ContainerSum(outgate_df, "status", keys[g], slow_buckets,
                                     Len(outgate_df))
                slow_pct == Pct(slow, total)
            IN  [status |-> keys[g],
                 total_containers |-> total,
                 slow_containers |-> slow,
                 slow_pct |-> slow_pct,
                 flag |-> IF QuotGE(slow_pct, slow_high) THEN "HIGH" ELSE "NORMAL",
                 extraction_ts_utc |-> extraction_ts_utc,
                 from_date |-> Tag(from_date),
                 to_date |-> Tag(to_date)]]
    IN  IF rows = <<>> THEN Raise("ValueError", "empty", 0, <<>>) ELSE Ok(rows)

-----------------------------------------------------------------------------
(* kpis.py: build_berth_snapshot                                           *)

\* Python's None in a column.
None == "None"

\* head that stops one row early.
head_one_short(rows, n) ==
    LET keep == IF n >= 0 THEN (IF n < Len(rows) THEN n ELSE Len(rows))
                ELSE (IF Len(rows) + n > 0 THEN Len(rows) + n ELSE 0)
    IN  SubSeq(rows, 1, keep - 1)

\* df.head(n): the first n rows, or for n < 0 all but the last -n rows.
head(rows, n) ==
    LET keep == IF n >= 0 THEN (IF n < Len(rows) THEN n ELSE Len(rows))
                ELSE (IF Len(rows) + n > 0 THEN Len(rows) + n ELSE 0)
    IN  SubSeq(rows, 1, keep)

RECURSIVE HoursSum(_, _)
HoursSum(df, i) == IF i = 0 THEN 0 ELSE HoursSum(df, i - 1) + df[i].time_at_berth_hours

\* order: the order sort_values(ascending=False) put the rows in.
build_berth_snapshot(berth_df, order, extraction_ts_utc, from_date, to_date, berth_high_hours, top_n) ==
    LET avg_time == Quot(HoursSum(berth_df, Len(berth_df)), Len(berth_df))
        flag == IF QuotGE(avg_time, berth_high_hours) THEN "HIGH" ELSE "NORMAL"
        Row(record_type, vessel, terminal, hours) ==
            [record_type |-> record_type, vessel |-> vessel, terminal |-> terminal,
             time_at_berth_hours |-> hours, avg_time_at_berth_hours |-> avg_time,
             flag |-> flag, extraction_ts_utc |-> extraction_ts_utc,
             from_date |-> Tag(from_date), to_date |-> Tag(to_date)]
        top == head(Reorder(berth_df, order), top_n)
    IN  <<Row("summary", None, None, None)>>
        \o [i \in 1..Len(top) |->
               Row("vessel", top[i].vessel, top[i].terminal, top[i].time_at_berth_hours)]

-----------------------------------------------------------------------------
(* kpis.py: build_health_summary                                           *)

\* ", ".join(strings)
RECURSIVE join(_)
join(strings) ==
    IF Len(strings) = 0 THEN ""
    ELSE IF Len(strings) = 1 THEN strings[1]
    ELSE strings[1] \o ", " \o join(Tail(strings))

\* df[mask][col]: the values of col in the rows of df the boolean mask
\* keeps, in row order.
RECURSIVE Select(_, _, _, _)
Select(df, mask, col, i) ==
    IF i > Len(df) THEN <<>>
    ELSE (IF mask[i] THEN <<df[i][col]>> ELSE <<>>) \o Select(df, mask, col, i + 1)

_flag_for_load_type(df, load_type) ==
    LET mask == [i \in 1..Len(df) |-> lower(df[i].load_type) = load_type]
        subset == Select(df, mask, "flag", 1)
    IN  IF subset = <<>> THEN "UNKNOWN" ELSE subset[1]

\* The list of HIGH statuses joined even when it is empty.
HighStatusesAlwaysJoined(high_statuses) == join(high_statuses)

HighStatuses(high_statuses) ==
    IF high_statuses # <<>> THEN join(high_statuses) ELSE "NONE"

\* latest: the position in volume_df of the row sort_values put last.
build_health_summary(volume_df, latest, terminal_df, outgate_df, berth_df, extraction_ts_utc) ==
    LET is_high == [i \in 1..Len(outgate_df) |-> outgate_df[i].flag = "HIGH"]
        is_summary == [i \in 1..Len(berth_df) |-> berth_df[i].record_type = "summary"]
        high_statuses == Select(outgate_df, is_high, "status", 1)
    IN  << [volume_pressure_flag |-> volume_df[latest].flag,
            terminal_congestion_loaded_flag |-> _flag_for_load_type(terminal_df, "loaded"),
            terminal_congestion_empty_flag |-> _flag_for_load_type(terminal_df, "empty"),
            outgate_stress_high_statuses |-> HighStatuses(high_statuses),
            berth_flag |-> Select(berth_df, is_summary, "flag", 1)[1],
            extraction_ts_utc |-> extraction_ts_utc] >>

-----------------------------------------------------------------------------
(* build_weekly_volume_pressure on bounded datasets.                       *)

MaxWeeks == 5
\* The longest dataset tried with thresholds other than the defaults.
MaxFlagWeeks == 2

WeekRow(day, inbound) == [week_start_date |-> day, inbound_full_containers |-> inbound]
WeeklyRows ==
    { WeekRow(19730, 100), WeekRow(19723, 0), WeekRow(19730, 130), WeekRow(19737, 100) }
WeeklyFrames == UNION { [1..n -> WeeklyRows] : n \in 1..MaxWeeks }

\* (high, low): the defaults, low above high, and both equal to 1.
DefaultVolumeThresholds == <<Quot(115, 100), Quot(90, 100)>>
VolumeThresholds ==
    { DefaultVolumeThresholds, <<Quot(90, 100), Quot(115, 100)>>, <<Quot(1, 1), Quot(1, 1)>> }

InitVolume ==
    /\ NoPipeline
    /\ fn = "build_weekly_volume_pressure"
    /\ \E df \in WeeklyFrames, th \in VolumeThresholds :
          /\ th = DefaultVolumeThresholds \/ Len(df) <= MaxFlagWeeks
          /\ arg = [df |-> df, high |-> th[1], low |-> th[2]]
    /\ res = NoRes

CallVolume ==
    /\ fn = "build_weekly_volume_pressure" /\ res = NoRes
    /\ \E order \in sort_values(arg.df, "week_start_date", TRUE) :
          res' = Ok(build_weekly_volume_pressure(arg.df, order, 1, "2024-01-01", "",
                                                 arg.high, arg.low))
    /\ UNCHANGED <<fn, arg, pvars>>

NextVolume == CallVolume

SpecVolume == InitVolume /\ [][NextVolume]_vars

-----------------------------------------------------------------------------
(* Properties of build_weekly_volume_pressure.                             *)

VolumeBuilt == fn = "build_weekly_volume_pressure" /\ res # NoRes

\* C6: in every output row, flag = LOW whenever index <= low_threshold (also
\* when index >= high_threshold holds too), flag = HIGH exactly when
\* index >= high_threshold and not index <= low_threshold, NORMAL otherwise;
\* for every pair of thresholds, low above high included.
C6_FlagByThresholds ==
    VolumeBuilt =>
        \A i \in 1..Len(res.rows) :
            LET row == res.rows[i]
                isLow == QuotLE(row.volume_pressure_index, arg.low)
                isHigh == QuotGE(row.volume_pressure_index, arg.high)
            IN  /\ isLow => row.flag = "LOW"
                /\ (isHigh /\ ~isLow) <=> row.flag = "HIGH"
                /\ (~isHigh /\ ~isLow) => row.flag = "NORMAL"

\* A row whose index is at once >= high and <= low has been flagged LOW.
C6_Witness ==
    /\ VolumeBuilt
    /\ \E i \in 1..Len(res.rows) :
          /\ QuotGE(res.rows[i].volume_pressure_index, arg.high)
          /\ QuotLE(res.rows[i].volume_pressure_index, arg.low)
          /\ res.rows[i].flag = "LOW"

\* The sum of values[from..to].
RECURSIVE SumRange(_, _, _)
SumRange(values, from, to) ==
    IF from > to THEN 0 ELSE values[to] + SumRange(values, from, to - 1)

\* C7: the output holds the input's rows in ascending week_start_date order,
\* and rolling_4w_avg_teu at position i is the mean of inbound_full_containers
\* over the positions max(1, i-3)..i of the output (positions from 1); so the
\* first row's average is its own inbound_full_containers.
C7_SortedRollingMean ==
    VolumeBuilt =>
        LET out == res.rows
            inbound == [i \in 1..Len(out) |-> out[i].inbound_full_containers]
            Same(a, b) == a.week_start_date = b.week_start_date
                          /\ a.inbound_full_containers = b.inbound_full_containers
        IN  /\ Len(out) = Len(arg.df)
            /\ \A r \in WeeklyRows :
                  Cardinality({i \in 1..Len(out) : Same(out[i], r)})
                  = Cardinality({i \in 1..Len(arg.df) : Same(arg.df[i], r)})
            /\ \A i, j \in 1..Len(out) :
                  i < j => out[i].week_start_date <= out[j].week_start_date
            /\ \A i \in 1..Len(out) :
                  LET from == IF i - 3 > 1 THEN i - 3 ELSE 1
                      avg == out[i].rolling_4w_avg_teu
                  IN  /\ avg.den > 0
                      /\ avg.num * (i - from + 1) = SumRange(inbound, from, i) * avg.den
            /\ out[1].rolling_4w_avg_teu.num
               = out[1].inbound_full_containers * out[1].rolling_4w_avg_teu.den

\* A dataset of five rows or more, given out of order, whose fifth average
\* no longer counts the first row.
C7_Witness ==
    /\ VolumeBuilt /\ Len(res.rows) >= 5
    /\ \E i, j \in 1..Len(arg.df) :
          i < j /\ arg.df[i].week_start_date > arg.df[j].week_start_date
    /\ res.rows[1].inbound_full_containers # res.rows[5].inbound_full_containers
    /\ res.rows[5].rolling_4w_avg_teu.den = 4

-----------------------------------------------------------------------------
(* The group KPIs, the berth snapshot and the health summary on bounded    *)
(* datasets.                                                               *)

MaxGroupRows == 2
MaxVessels == 3

CongestedBuckets == {"9-12 Days", "13+ Days"}
SlowOutgateBuckets == {"5-8 Days", "9-12 Days", "13+ Days"}
TerminalLoadedHigh == Quot(25, 100)
TerminalEmptyHigh == Quot(50, 100)
OutgateSlowHigh == Quot(40, 100)
BerthHighHours == Quot(24, 1)

FramesOf(rows, n) == UNION { [1..h -> rows] : h \in 1..n }

TerminalRows ==
    [load_type : {"Loaded", "empty", "reefer"}, bucket : {"9-12 Days", "0-4 Days"},
     containers : {0, 3, -3}]
\* (loaded_high, empty_high): the defaults, and each threshold at 0.
TerminalThresholds ==
    { <<TerminalLoadedHigh, TerminalEmptyHigh>>, <<Quot(0, 1), TerminalEmptyHigh>>,
      <<TerminalLoadedHigh, Quot(0, 1)>> }
OutgateRows ==
    [status : {"Import", "Export", "NONE"}, bucket : {"5-8 Days", "0-4 Days"},
     containers : {0, 10}]

InitCongestion ==
    /\ NoPipeline
    /\ \/ /\ fn = "build_terminal_congestion"
          /\ \E df \in FramesOf(TerminalRows, MaxGroupRows), th \in TerminalThresholds :
                arg = [df |-> df, loaded_high |-> th[1], empty_high |-> th[2]]
       \/ /\ fn = "build_outgate_stress_by_status"
          /\ \E df \in FramesOf(OutgateRows, MaxGroupRows) : arg = [df |-> df]
    /\ res = NoRes

CallTerminalCongestion ==
    /\ fn = "build_terminal_congestion" /\ res = NoRes
    /\ res' = build_terminal_congestion(arg.df, 1, "2024-01-01", "", CongestedBuckets,
                                        arg.loaded_high, arg.empty_high)
    /\ UNCHANGED <<fn, arg, pvars>>

CallOutgateStress ==
    /\ fn = "build_outgate_stress_by_status" /\ res = NoRes
    /\ res' = build_outgate_stress_by_status(arg.df, 1, "2024-01-01", "",
                                             SlowOutgateBuckets, OutgateSlowHigh)
    /\ UNCHANGED <<fn, arg, pvars>>

NextCongestion == CallTerminalCongestion \/ CallOutgateStress

SpecCongestion == InitCongestion /\ [][NextCongestion]_vars

BerthRows ==
    { [vessel |-> "MSC Anna", time_at_berth_hours |-> 30, terminal |-> Str("T1")],
      [vessel |-> "Ever Ace", time_at_berth_hours |-> 30, terminal |-> Null],
      [vessel |-> "Ever Ace", time_at_berth_hours |-> 7, terminal |-> Str("T2")],
      [vessel |-> "Maersk Ohio", time_at_berth_hours |-> 12, terminal |-> Null] }
TopNValues == { -1, 0, 1, 2, 5 }

InitBerth ==
    /\ NoPipeline
    /\ fn = "build_berth_snapshot"
    /\ \E df \in FramesOf(BerthRows, MaxVessels), n \in TopNValues :
          arg = [df |-> df, top_n |-> n]
    /\ res = NoRes

CallBerthSnapshot ==
    /\ fn = "build_berth_snapshot" /\ res = NoRes
    /\ \E order \in sort_values(arg.df, "time_at_berth_hours", FALSE) :
          res' = Ok(build_berth_snapshot(arg.df, order, 1, "2024-01-01", "",
                                         BerthHighHours, arg.top_n))
    /\ UNCHANGED <<fn, arg, pvars>>

NextBerth == CallBerthSnapshot

SpecBerth == InitBerth /\ [][NextBerth]_vars

\* The datasets of the health summary: one of the terminal and outgate
\* datasets varies while the other three are fixed.
HealthTerminalRows ==
    [load_type : {"Loaded", "loaded", "empty", "reefer"}, bucket : {"9-12 Days", "0-4 Days"},
     containers : {10}]
HealthOutgateRows ==
    [status : {"Import", "Export", "NONE"}, bucket : {"5-8 Days", "0-4 Days"},
     containers : {10}]
FixedWeekly == <<WeekRow(19723, 100), WeekRow(19730, 130)>>
FixedTerminal == <<[load_type |-> "loaded", bucket |-> "0-4 Days", containers |-> 10]>>
FixedOutgate == <<[status |-> "Import", bucket |-> "0-4 Days", containers |-> 10]>>
FixedBerth == <<[vessel |-> "MSC Anna", time_at_berth_hours |-> 30, terminal |-> Str("T1")]>>

InitHealth ==
    /\ NoPipeline
    /\ fn = "build_health_summary"
    /\ \/ \E df \in FramesOf(HealthTerminalRows, MaxGroupRows) :
             arg = [terminal |-> df, outgate |-> FixedOutgate]
       \/ \E df \in FramesOf(HealthOutgateRows, MaxGroupRows) :
             arg = [terminal |-> FixedTerminal, outgate |-> df]
    /\ res = NoRes

\* The four KPI tables are built from the datasets as run_pipeline builds
\* them, then summarised.
CallHealthSummary ==
    /\ fn = "build_health_summary" /\ res = NoRes
    /\ \E worder \in sort_values(FixedWeekly, "week_start_date", TRUE),
          border \in sort_values(FixedBerth, "time_at_berth_hours", FALSE) :
          LET kpi_weekly ==
                  build_weekly_volume_pressure(FixedWeekly, worder, 1, "", "",
                      DefaultVolumeThresholds[1], DefaultVolumeThresholds[2])
              kpi_terminal ==
                  build_terminal_congestion(arg.terminal, 1, "", "", CongestedBuckets,
                      TerminalLoadedHigh, TerminalEmptyHigh).rows
              kpi_outgate ==
                  build_outgate_stress_by_status(arg.outgate, 1, "", "",
                      SlowOutgateBuckets, OutgateSlowHigh).rows
              kpi_berth ==
                  build_berth_snapshot(FixedBerth, border, 1, "", "", BerthHighHours, 5)
          IN  \E lorder \in sort_values(kpi_weekly, "week_start_date", TRUE) :
                 res' = [kind |-> "ok",
                         terminal |-> kpi_terminal,
                         outgate |-> kpi_outgate,
                         rows |-> build_health_summary(kpi_weekly, lorder[Len(lorder)],
                                     kpi_terminal, kpi_outgate, kpi_berth, 1)]
    /\ UNCHANGED <<fn, arg, pvars>>

NextHealth == CallHealthSummary

SpecHealth == InitHealth /\ [][NextHealth]_vars

-----------------------------------------------------------------------------
(* Properties of the group KPIs, the berth snapshot and the health summary. *)

TerminalBuilt == fn = "build_terminal_congestion" /\ res # NoRes

\* C8 as stated: a load_type group whose total_containers is 0 gets
\* congested_pct = 0.0 and flag = NORMAL, with no division by zero, for every
\* load_type and every loaded_high and empty_high.
C8_EmptyGroupIsNormal ==
    TerminalBuilt =>
        /\ res.kind = "ok"
        /\ \A g \in 1..Len(res.rows) :
              res.rows[g].total_containers = 0
              => /\ res.rows[g].congested_pct.den # 0
                 /\ res.rows[g].congested_pct.num = 0
                 /\ res.rows[g].flag = "NORMAL"

\* C8, amended: a load_type group whose total_containers is 0 gets
\* congested_pct = 0.0 with no division by zero, and its flag is NORMAL
\* unless the load_type is "loaded" (or "empty"), case-insensitively, and
\* loaded_high (or empty_high) is at most 0, when the flag is HIGH.
C8_EmptyGroupFlag ==
    TerminalBuilt =>
        /\ res.kind = "ok"
        /\ \A g \in 1..Len(res.rows) :
              LET row == res.rows[g]
                  high == \/ row.load_type \in {"loaded", "Loaded"} /\ arg.loaded_high.num <= 0
                          \/ row.load_type \in {"empty", "Empty"} /\ arg.empty_high.num <= 0
              IN  row.total_containers = 0
                  => /\ row.congested_pct.den # 0
                     /\ row.congested_pct.num = 0
                     /\ row.flag = (IF high THEN "HIGH" ELSE "NORMAL")

\* A loaded group of total 0 whose congested containers are not 0, flagged
\* NORMAL under a positive threshold.
C8_Witness ==
    /\ TerminalBuilt /\ arg.loaded_high.num > 0
    /\ \E g \in 1..Len(res.rows) :
          /\ res.rows[g].load_type = "Loaded"
          /\ res.rows[g].total_containers = 0
          /\ res.rows[g].congested_containers # 0
          /\ res.rows[g].flag = "NORMAL"

BerthBuilt == fn = "build_berth_snapshot" /\ res # NoRes

\* The snapshot is one summary row followed by count vessel rows, which are
\* rows of the dataset with the largest time_at_berth_hours, in descending
\* order, each with the summary's average and flag.
IsSnapshot(out, df, count) ==
    LET vessels == 2..Len(out)
        Same(a, b) == a.vessel = b.vessel /\ a.terminal = b.terminal
                      /\ a.time_at_berth_hours = b.time_at_berth_hours
        InOut(r) == Cardinality({i \in vessels : Same(out[i], r)})
        InDf(r) == Cardinality({i \in 1..Len(df) : Same(df[i], r)})
    IN  /\ Len(out) = 1 + count
        /\ out[1].record_type = "summary"
        /\ \A i \in vessels :
              /\ out[i].record_type = "vessel"
              /\ out[i].avg_time_at_berth_hours = out[1].avg_time_at_berth_hours
              /\ out[i].flag = out[1].flag
        /\ \A i, j \in vessels :
              i < j => out[i].time_at_berth_hours >= out[j].time_at_berth_hours
        /\ \A r \in BerthRows :
              /\ InOut(r) <= InDf(r)
              /\ InOut(r) < InDf(r)
                 => \A i \in vessels : out[i].time_at_berth_hours >= r.time_at_berth_hours

Min(a, b) == IF a < b THEN a ELSE b
Max(a, b) == IF a > b THEN a ELSE b

\* C9 as stated: for every dataset of n >= 1 rows and every top_n the
\* snapshot is the summary row and min(top_n, n) vessel rows.
C9_TopNOrAll ==
    BerthBuilt => IsSnapshot(res.rows, arg.df, Min(arg.top_n, Len(arg.df)))

\* C9, amended: for every dataset of n >= 1 rows the snapshot is the summary
\* row and min(top_n, n) vessel rows when top_n >= 0 (all n rows when
\* top_n > n), and the summary row and max(n + top_n, 0) vessel rows when
\* top_n < 0.
C9_TopNOrAllButLast ==
    BerthBuilt =>
        IsSnapshot(res.rows, arg.df,
                   IF arg.top_n >= 0 THEN Min(arg.top_n, Len(arg.df))
                   ELSE Max(Len(arg.df) + arg.top_n, 0))

\* top_n is larger than the number of rows, and every row came back.
C9_Witness ==
    /\ BerthBuilt /\ arg.top_n > Len(arg.df) /\ Len(arg.df) >= 2
    /\ Len(res.rows) = 1 + Len(arg.df)
    /\ \E i, j \in 1..Len(arg.df) :
          i < j /\ arg.df[i].time_at_berth_hours < arg.df[j].time_at_berth_hours

HealthBuilt == fn = "build_health_summary" /\ res # NoRes

\* The statuses of the outgate table flagged HIGH, in table order, and their
\* comma-joined list.
HighList(outgate) ==
    LET RECURSIVE From(_)
        From(i) == IF i > Len(outgate) THEN <<>>
                   ELSE (IF outgate[i].flag = "HIGH" THEN <<outgate[i].status>> ELSE <<>>)
                        \o From(i + 1)
    IN  From(1)
CommaJoined(list) ==
    LET RECURSIVE Upto(_)
        Upto(i) == IF i = 1 THEN list[1] ELSE Upto(i - 1) \o ", " \o list[i]
    IN  Upto(Len(list))

UnknownExactly(flag, terminal, load_type) ==
    flag = "UNKNOWN" <=>
        ~\E g \in 1..Len(terminal) :
              \/ terminal[g].load_type = load_type
              \/ load_type = "loaded" /\ terminal[g].load_type = "Loaded"
              \/ load_type = "empty" /\ terminal[g].load_type = "Empty"

\* C10 as stated: the summary is one row; outgate_stress_high_statuses is
\* "NONE" exactly when no status is flagged HIGH and is otherwise the
\* comma-joined list of the statuses flagged HIGH; the loaded (empty) terminal
\* flag is "UNKNOWN" exactly when no group's load_type is "loaded" ("empty")
\* case-insensitively.
C10_NoneExactlyWhenNoHigh ==
    HealthBuilt =>
        LET high == HighList(res.outgate)
            row == res.rows[1]
        IN  /\ Len(res.rows) = 1
            /\ row.outgate_stress_high_statuses = "NONE" <=> high = <<>>
            /\ high # <<>> => row.outgate_stress_high_statuses = CommaJoined(high)
            /\ UnknownExactly(row.terminal_congestion_loaded_flag, res.terminal, "loaded")
            /\ UnknownExactly(row.terminal_congestion_empty_flag, res.terminal, "empty")

\* C10, amended: as stated, except that outgate_stress_high_statuses is
\* "NONE" exactly when no status is flagged HIGH or the only status flagged
\* HIGH is itself named "NONE".
C10_NoneWhenNoHigh ==
    HealthBuilt =>
        LET high == HighList(res.outgate)
            row == res.rows[1]
        IN  /\ Len(res.rows) = 1
            /\ high = <<>> => row.outgate_stress_high_statuses = "NONE"
            /\ high # <<>> => row.outgate_stress_high_statuses = CommaJoined(high)
            /\ row.outgate_stress_high_statuses = "NONE" <=> high \in {<<>>, <<"NONE">>}
            /\ UnknownExactly(row.terminal_congestion_loaded_flag, res.terminal, "loaded")
            /\ UnknownExactly(row.terminal_congestion_empty_flag, res.terminal, "empty")

\* An outgate table of two statuses, none flagged HIGH, summarised as "NONE",
\* beside a terminal table with a loaded group and no empty group.
C10_Witness ==
    /\ HealthBuilt
    /\ Len(res.outgate) = 2 /\ HighList(res.outgate) = <<>>
    /\ res.rows[1].outgate_stress_high_statuses = "NONE"
    /\ res.rows[1].terminal_congestion_loaded_flag # "UNKNOWN"
    /\ res.rows[1].terminal_congestion_empty_flag = "UNKNOWN"

-----------------------------------------------------------------------------
(* config.py: the environment of a run and Settings.from_env.               *)

FeedNames == <<"weekly", "terminal", "outgate", "berth">>
Feeds == {FeedNames[i] : i \in 1..Len(FeedNames)}

\* The variables _parse_json_env reads, in the order from_env reads them.
JsonNames ==
    <<"SIGNAL_WEEKLY_VOLUMES_PAYLOAD", "SIGNAL_CONTAINERS_AT_TERMINAL_PAYLOAD",
      "SIGNAL_OUTGATED_METRICS_PAYLOAD", "SIGNAL_BERTH_PAYLOAD", "SIGNAL_HEADERS_JSON",
      "SIGNAL_COOKIES_JSON">>

\* An environment in which every step of the configuration succeeds.
\*   urls[feed]: "" (unset or blank), "http" (absolute) or "relative";
\*   json[name]: "" (unset or empty), "object" (a non-empty JSON object),
\*               "empty_object" ({}) or "invalid" (not JSON);
\*   cookies_path: "" (unset or empty), "missing" (no such file), "file"
\*               (a file holding a JSON object) or "not_json" (a file that
\*               does not hold JSON);
\*   database_url: "" (unset or blank), "set" or "malformed" (not a URL);
\*   from_date, to_date: "" when unset or empty.
BaseEnviron ==
    [urls |-> [f \in Feeds |-> "http"],
     base_url |-> "",
     database_url |-> "set",
     json |-> [n \in {JsonNames[i] : i \in 1..Len(JsonNames)} |-> ""],
     cookies_path |-> "",
     timeout_seconds |-> "30",
     log_level |-> "INFO",
     from_date |-> "2024-01-01",
     to_date |-> ""]

UrlChoices ==
    { [f \in Feeds |-> "http"], [f \in Feeds |-> "relative"],
      [f \in Feeds |-> IF f = "weekly" THEN "" ELSE "http"],
      [f \in Feeds |-> IF f = "berth" THEN "" ELSE "http"],
      [f \in Feeds |-> IF f = "weekly" THEN "http" ELSE "relative"] }

\* The environments tried: BaseEnviron with one setting, or two related
\* settings, changed.
Environments ==
    { [BaseEnviron EXCEPT !.urls = u, !.base_url = b] :
          u \in UrlChoices, b \in {"", "https://signal.example"} }
    \cup { [BaseEnviron EXCEPT !.database_url = d] : d \in {"", "malformed"} }
    \cup { [BaseEnviron EXCEPT !.json[n] = v] :
              n \in {JsonNames[1], JsonNames[4], JsonNames[5]}, v \in {"object", "invalid"} }
    \cup { [BaseEnviron EXCEPT !.json["SIGNAL_COOKIES_JSON"] = c, !.cookies_path = p] :
              c \in {"", "object", "empty_object", "invalid"},
              p \in {"", "missing", "file", "not_json"} }
    \cup { [BaseEnviron EXCEPT !.timeout_seconds = "soon"],
           [BaseEnviron EXCEPT !.log_level = "LOUD"],
           [BaseEnviron EXCEPT !.from_date = "", !.to_date = ""],
           [BaseEnviron EXCEPT !.from_date = "2024-01-01", !.to_date = "2024-03-31"] }

NoSettings == [kind |-> "none"]
\* The exception a call of run_pipeline raised: stage names the call, why
\* tells apart the raise statements of one call.
NoError == [kind |-> "none", stage |-> "", exc |-> "", why |-> ""]
Failure(stage, exc, why) == [kind |-> "raise", stage |-> stage, exc |-> exc, why |-> why]

\* The first variable, in reading order, whose value is not JSON; 0 if none.
RECURSIVE FirstInvalidJson(_, _)
FirstInvalidJson(env, j) ==
    IF j > Len(JsonNames) THEN 0
    ELSE IF env.json[JsonNames[j]] = "invalid" THEN j
    ELSE FirstInvalidJson(env, j + 1)

\* Settings.from_env: the settings, or the ValueError it raises (why: which).
\* The thresholds and bucket lists are the defaults.
from_env(env) ==
    IF \E f \in Feeds : env.urls[f] = "" THEN Failure("from_env", "ValueError", "endpoint")
    ELSE IF env.database_url = "" THEN Failure("from_env", "ValueError", "database")
    ELSE IF FirstInvalidJson(env, 1) # 0 THEN Failure("from_env", "ValueError", "json")
    ELSE IF env.timeout_seconds # "30" THEN Failure("from_env", "ValueError", "int")
    ELSE [kind |-> "settings",
          base_url |-> env.base_url,
          urls |-> env.urls,
          json |-> env.json,
          cookies_path |-> env.cookies_path,
          log_level |-> env.log_level,
          database_url |-> env.database_url,
          from_date |-> env.from_date,
          to_date |-> env.to_date]

-----------------------------------------------------------------------------
(* main.py: configure_logging;  client.py: from_settings, fetch_json.       *)

\* logging.basicConfig(level=level) raises ValueError for an unknown level.
configure_logging(level) ==
    IF level = "INFO" THEN NoError
    ELSE Failure("configure_logging", "ValueError", "level")

\* _load_cookies that takes a missing file for no cookies.
load_cookies_lenient(s) ==
    IF s.json["SIGNAL_COOKIES_JSON"] = "object" THEN NoError
    ELSE IF s.cookies_path = "not_json"
    THEN Failure("from_settings", "JSONDecodeError", "cookies")
    ELSE NoError

\* _load_cookies: inline cookies, when there are any, are returned before
\* the path is looked at; {} and "" are falsy.
_load_cookies(s) ==
    IF s.json["SIGNAL_COOKIES_JSON"] = "object" THEN NoError
    ELSE IF s.cookies_path # ""
    THEN IF s.cookies_path = "missing"
         THEN Failure("from_settings", "FileNotFoundError", "cookies")
         ELSE IF s.cookies_path = "not_json"
         THEN Failure("from_settings", "JSONDecodeError", "cookies")
         ELSE NoError
    ELSE NoError

\* SignalClient.from_settings: building the session contacts nobody.
from_settings(s) == _load_cookies(s)

\* _resolve_url(endpoint) for the endpoint of a feed.
_resolve_url(s, feed) ==
    IF s.urls[feed] = "http" THEN NoError
    ELSE IF s.base_url = "" THEN Failure("fetch_" \o feed, "ValueError", "base_url")
    ELSE NoError

\* The outcomes of session.request followed by response.json(): no response
\* after the retries, a status >= 400, a body that is not JSON, or a payload.
GoodItems(feed) ==
    CASE feed = "weekly" ->
           << Obj({<<"weekStartDate", Str("2024-01-01")>>, <<"inboundFullContainers", Num(100)>>}),
              Obj({<<"week", Str("2024-01-08")>>, <<"inbound_full_teu", Str("12")>>}) >>
      [] feed = "terminal" ->
           << Obj({<<"loadType", Str("loaded")>>, <<"bucket", Str("9-12 Days")>>,
                   <<"containers", Num(10)>>}) >>
      [] feed = "outgate" ->
           << Obj({<<"status", Str("Import")>>, <<"bucket", Str("5-8 Days")>>,
                   <<"containers", Num(10)>>}) >>
      [] feed = "berth" ->
           << Obj({<<"vessel", Str("MSC Anna")>>, <<"timeAtBerthHours", Num(30)>>,
                   <<"terminal", Str("T1")>>}) >>

FeedPayloads(feed) == { BareList(GoodItems(feed)), BareList(<<>>) }

Responses(feed) ==
    { [kind |-> "raise", exc |-> e, payload |-> Scalar] :
          e \in {"ConnectionError", "HTTPError", "ValueError"} }
    \cup { [kind |-> "json", exc |-> "", payload |-> p] : p \in FeedPayloads(feed) }

-----------------------------------------------------------------------------
(* main.py: run_pipeline, one action per call it makes;  db.py: write_tables, *)
(* one action per table.                                                     *)

\* The runs of the process that are followed.
MaxRuns == 2

\* The tables, in the order of the dict run_pipeline hands to write_tables.
TableNames ==
    <<"kpi_weekly_volume_pressure", "kpi_terminal_congestion",
      "kpi_outgate_stress_by_status", "kpi_berth_snapshot", "kpi_health_summary">>
Tables == {TableNames[i] : i \in 1..Len(TableNames)}

\* The calls of run_pipeline in program order.
Program ==
    <<"from_env", "configure_logging", "from_settings",
      "fetch_weekly", "fetch_terminal", "fetch_outgate", "fetch_berth",
      "parse_weekly", "parse_terminal", "parse_outgate", "parse_berth",
      "build_weekly", "build_terminal", "build_outgate", "build_berth", "build_health",
      "create_db_engine", "write_tables", "done">>

IndexOf(step) == CHOOSE i \in 1..Len(Program) : Program[i] = step

\* A program that persists the four feed tables before it derives the
\* health summary.
StepAfterWritingEarly(step) ==
    CASE step = "build_berth" -> "create_db_engine"
      [] step = "write_tables" -> "build_health"
      [] step = "build_health" -> "done"
      [] OTHER -> Program[IndexOf(step) + 1]

StepAfter(step) == Program[IndexOf(step) + 1]

\* A table that does not exist, and a table holding rows.
NoTable == [state |-> "absent", rows |-> <<>>]
Table(rows) == [state |-> "present", rows |-> rows]

NoPayload == [shape |-> "unset", items |-> <<>>, top |-> <<>>]

\* The locals of run_pipeline before its first statement.
Fresh ==
    /\ pc' = "from_env"
    /\ settings' = NoSettings
    /\ extraction_ts' = 0
    /\ payloads' = [f \in Feeds |-> NoPayload]
    /\ frames' = [f \in Feeds |-> <<>>]
    /\ kpis' = [t \in Tables |-> <<>>]
    /\ written' = 0
    /\ error' = NoError
    /\ calls' = [fetch_json |-> 0, request |-> 0]
    /\ trail' = <<>>

Init ==
    /\ fn = "run_pipeline" /\ arg = NoRes /\ res = NoRes
    /\ run = 1
    /\ environ \in Environments
    /\ pc = "from_env"
    /\ settings = NoSettings
    /\ extraction_ts = 0
    /\ payloads = [f \in Feeds |-> NoPayload]
    /\ frames = [f \in Feeds |-> <<>>]
    /\ kpis = [t \in Tables |-> <<>>]
    /\ written = 0
    /\ error = NoError
    /\ db = [t \in Tables |-> NoTable]
    /\ calls = [fetch_json |-> 0, request |-> 0]
    /\ trail = <<>>
    /\ dbBefore = [t \in Tables |-> NoTable]

\* The call at step returned: run_pipeline goes on to its next call.
Returns(step) ==
    /\ pc' = StepAfter(step)
    /\ trail' = Append(trail, step)
    /\ error' = NoError

\* The call at step raised: nothing catches it and the process ends.
Raises(failure) ==
    /\ pc' = "aborted"
    /\ trail' = trail
    /\ error' = failure

\* settings = Settings.from_env()
FromEnv ==
    /\ pc = "from_env"
    /\ LET result == from_env(environ)
       IN  IF result.kind = "raise"
           THEN Raises(result) /\ settings' = settings
           ELSE Returns("from_env") /\ settings' = result
    /\ UNCHANGED <<fvars, run, environ, extraction_ts, payloads, frames, kpis, written,
                   db, calls, dbBefore>>

\* logger = configure_logging(settings.log_level)
ConfigureLogging ==
    /\ pc = "configure_logging"
    /\ LET result == configure_logging(settings.log_level)
       IN  IF result.kind = "raise" THEN Raises(result) ELSE Returns("configure_logging")
    /\ UNCHANGED <<fvars, run, environ, settings, extraction_ts, payloads, frames, kpis,
                   written, db, calls, dbBefore>>

\* client = SignalClient.from_settings(settings, logger);
\* extraction_ts_utc = datetime.now(timezone.utc): the clock is the run's number.
FromSettings ==
    /\ pc = "from_settings"
    /\ LET result == from_settings(settings)
       IN  IF result.kind = "raise"
           THEN Raises(result) /\ extraction_ts' = extraction_ts
           ELSE Returns("from_settings") /\ extraction_ts' = run
    /\ UNCHANGED <<fvars, run, environ, settings, payloads, frames, kpis, written, db,
                   calls, dbBefore>>

\* client.fetch_json(url, payload) for one feed.
FetchJson(feed) ==
    /\ pc = "fetch_" \o feed
    /\ LET resolved == _resolve_url(settings, feed)
       IN  IF resolved.kind = "raise"
           THEN /\ Raises(resolved)
                /\ calls' = [calls EXCEPT !.fetch_json = @ + 1]
                /\ payloads' = payloads
           ELSE /\ calls' = [fetch_json |-> calls.fetch_json + 1,
                             request |-> calls.request + 1]
                /\ \E response \in Responses(feed) :
                      IF response.kind = "raise"
                      THEN /\ Raises(Failure("fetch_" \o feed, response.exc, "response"))
                           /\ payloads' = payloads
                      ELSE /\ Returns("fetch_" \o feed)
                           /\ payloads' = [payloads EXCEPT ![feed] = response.payload]
    /\ UNCHANGED <<fvars, run, environ, settings, extraction_ts, frames, kpis, written, db,
                   dbBefore>>

FetchWeekly == FetchJson("weekly")
FetchTerminal == FetchJson("terminal")
FetchOutgate == FetchJson("outgate")
FetchBerth == FetchJson("berth")

\* One of the four parse_* calls; result: what the normalizer gave.
Parsed(feed, result) ==
    /\ pc = "parse_" \o feed
    /\ IF result.kind = "raise"
       THEN Raises(Failure("parse_" \o feed, result.exc, result.why)) /\ frames' = frames
       ELSE Returns("parse_" \o feed) /\ frames' = [frames EXCEPT ![feed] = result.rows]
    /\ UNCHANGED <<fvars, run, environ, settings, extraction_ts, payloads, kpis, written,
                   db, calls, dbBefore>>

ParseWeekly == Parsed("weekly", parse_weekly_volumes(payloads["weekly"]))
ParseTerminal == Parsed("terminal", parse_terminal_containers(payloads["terminal"]))
ParseOutgate == Parsed("outgate", parse_outgate_metrics(payloads["outgate"]))
ParseBerth == Parsed("berth", parse_berth_data(payloads["berth"]))

\* One of the five build_* calls; result: the table built or the exception.
Built(step, table, result) ==
    /\ IF result.kind = "raise"
       THEN Raises(Failure(step, result.exc, result.why)) /\ kpis' = kpis
       ELSE Returns(step) /\ kpis' = [kpis EXCEPT ![table] = result.rows]
    /\ UNCHANGED <<fvars, run, environ, settings, extraction_ts, payloads, frames, written,
                   db, calls, dbBefore>>

BuildWeekly ==
    /\ pc = "build_weekly"
    /\ \E order \in sort_values(frames["weekly"], "week_start_date", TRUE) :
          Built("build_weekly", TableNames[1],
                Ok(build_weekly_volume_pressure(frames["weekly"], order, extraction_ts,
                       settings.from_date, settings.to_date,
                       DefaultVolumeThresholds[1], DefaultVolumeThresholds[2])))

BuildTerminal ==
    /\ pc = "build_terminal"
    /\ Built("build_terminal", TableNames[2],
             build_terminal_congestion(frames["terminal"], extraction_ts,
                 settings.from_date, settings.to_date, CongestedBuckets,
                 TerminalLoadedHigh, TerminalEmptyHigh))

BuildOutgate ==
    /\ pc = "build_outgate"
    /\ Built("build_outgate", TableNames[3],
             build_outgate_stress_by_status(frames["outgate"], extraction_ts,
                 settings.from_date, settings.to_date, SlowOutgateBuckets, OutgateSlowHigh))

\* BERTH_TOP_N is its default.
BuildBerth ==
    /\ pc = "build_berth"
    /\ \E order \in sort_values(frames["berth"], "time_at_berth_hours", FALSE) :
          Built("build_berth", TableNames[4],
                Ok(build_berth_snapshot(frames["berth"], order, extraction_ts,
                       settings.from_date, settings.to_date, BerthHighHours, 5)))

BuildHealth ==
    /\ pc = "build_health"
    /\ \E order \in sort_values(kpis[TableNames[1]], "week_start_date", TRUE) :
          Built("build_health", TableNames[5],
                Ok(build_health_summary(kpis[TableNames[1]], order[Len(order)],
                       kpis[TableNames[2]], kpis[TableNames[3]], kpis[TableNames[4]],
                       extraction_ts)))

\* engine = create_db_engine(settings.database_url): sqlalchemy parses the
\* URL and connects to nothing yet.
CreateDbEngine ==
    /\ pc = "create_db_engine"
    /\ IF settings.database_url = "malformed"
       THEN Raises(Failure("create_db_engine", "ArgumentError", "url"))
       ELSE Returns("create_db_engine")
    /\ UNCHANGED <<fvars, run, environ, settings, extraction_ts, payloads, frames, kpis,
                   written, db, calls, dbBefore>>

\* to_sql with if_exists="append": the rows are added to the table's own.
to_sql_append(existing, rows) == Table(existing.rows \o rows)

\* df.to_sql(table_name, engine, if_exists="replace") when it succeeds: the
\* table is dropped and created again with the rows of df.
to_sql(existing, rows) == Table(rows)

\* One iteration of the loop of write_tables: to_sql(if_exists="replace")
\* of the next table.  It replaces the table, or raises; when it raises the
\* table is as it was or, where the database commits the DROP on its own,
\* gone.  After the last table write_tables returns and run_pipeline ends.
WriteTable ==
    /\ pc = "write_tables" /\ written < Len(TableNames)
    /\ LET table == TableNames[written + 1]
       IN  \E outcome \in {"replaced", "raised", "raised after drop"} :
              IF outcome = "replaced"
              THEN /\ db' = [db EXCEPT ![table] = to_sql(db[table], kpis[table])]
                   /\ written' = written + 1
                   /\ IF written + 1 = Len(TableNames)
                      THEN Returns("write_tables")
                      ELSE pc' = pc /\ trail' = trail /\ error' = error
              ELSE /\ db' = IF outcome = "raised" THEN db ELSE [db EXCEPT ![table] = NoTable]
                   /\ written' = written
                   /\ Raises(Failure("write_tables", "SQLAlchemyError", table))
    /\ UNCHANGED <<fvars, run, environ, settings, extraction_ts, payloads, frames, kpis,
                   calls, dbBefore>>

\* python -m src.main once more, after the run before it has ended: a new
\* process, a new environment, the same database.
NextRun ==
    /\ pc \in {"done", "aborted"} /\ run < MaxRuns
    /\ run' = run + 1
    /\ environ' \in Environments
    /\ Fresh
    /\ dbBefore' = db
    /\ UNCHANGED <<fvars, db>>

Next ==
    \/ FromEnv \/ ConfigureLogging \/ FromSettings
    \/ FetchWeekly \/ FetchTerminal \/ FetchOutgate \/ FetchBerth
    \/ ParseWeekly \/ ParseTerminal \/ ParseOutgate \/ ParseBerth
    \/ BuildWeekly \/ BuildTerminal \/ BuildOutgate \/ BuildBerth \/ BuildHealth
    \/ CreateDbEngine \/ WriteTable \/ NextRun

Spec == Init /\ [][Next]_vars

-----------------------------------------------------------------------------
(* Properties of a run.                                                    *)

IsPrefix(a, b) == Len(a) <= Len(b) /\ a = SubSeq(b, 1, Len(a))
Returned(step) == \E i \in 1..Len(trail) : trail[i] = step

\* The four fetches, the four normalizations and the five derivations.
FetchNormalizeDerive ==
    { "fetch_weekly", "fetch_terminal", "fetch_outgate", "fetch_berth",
      "parse_weekly", "parse_terminal", "parse_outgate", "parse_berth",
      "build_weekly", "build_terminal", "build_outgate", "build_berth", "build_health" }

\* A write of this run was attempted: a table was written, the database
\* changed, or a write raised.
WriteAttempted == written > 0 \/ db # dbBefore \/ error.stage = "write_tables"

\* C1: in every run the calls are made in the fixed order (the four fetches,
\* the four normalizations, the five derivations volume, terminal, outgate,
\* berth, health summary, then the writes); no write is attempted before all
\* thirteen have returned; and when a fetch, a normalization or a derivation
\* fails the run is aborted with every table as it was when the run started
\* and with no call made after the failed one.
C1_NoWriteBeforeAllDerived ==
    /\ IsPrefix(trail, Program)
    /\ WriteAttempted => \A step \in FetchNormalizeDerive : Returned(step)
    /\ (error.kind = "raise" /\ error.stage \in FetchNormalizeDerive)
       => /\ pc = "aborted"
          /\ db = dbBefore /\ written = 0
          /\ trail = SubSeq(Program, 1, Len(trail))
          /\ Program[Len(trail) + 1] = error.stage

\* A second run whose third normalization failed, after its four fetches and
\* two normalizations, leaves the five tables of the first run as they were.
C1_Witness ==
    /\ run = 2 /\ pc = "aborted" /\ error.stage = "parse_outgate"
    /\ calls.request = 4 /\ Returned("parse_terminal")
    /\ \A t \in Tables :
          /\ db[t].state = "present"
          /\ db[t].rows[1].extraction_ts_utc = 1
    /\ db = dbBefore

\* The configuration failures the specification lists, as conditions of the
\* environment of the run.
MissingEndpoint(env) == \E f \in Feeds : env.urls[f] = ""
MissingDatabase(env) == env.database_url = ""
InvalidJson(env) == \E j \in 1..Len(JsonNames) : env.json[JsonNames[j]] = "invalid"
MissingCookieFile(env) == env.cookies_path = "missing"

NoNetworkCall == calls.fetch_json = 0 /\ calls.request = 0

\* C2 as stated: in a run whose environment lacks an endpoint URL or the
\* database URL, holds a blob that is not JSON, or names a cookie file that
\* does not exist, no fetch_json call and no request is ever made.
C2_ConfigFailureBeforeFetch ==
    ( MissingEndpoint(environ) \/ MissingDatabase(environ) \/ InvalidJson(environ)
      \/ MissingCookieFile(environ) )
    => NoNetworkCall

\* C2, amended: a cookie file that does not exist is a failure only when no
\* non-empty inline cookies are configured.  Under any of the four failures
\* the run never gets past the configuration (it is at from_env,
\* configure_logging or from_settings, or aborted) and makes no fetch_json
\* call and no request; and whenever from_env or from_settings raised, no
\* fetch_json call and no request was made before.
C2_ConsultedConfigFailureBeforeFetch ==
    /\ ( MissingEndpoint(environ) \/ MissingDatabase(environ) \/ InvalidJson(environ)
         \/ ( MissingCookieFile(environ) /\ environ.json["SIGNAL_COOKIES_JSON"] # "object" ) )
       => /\ NoNetworkCall
          /\ pc \in {"from_env", "configure_logging", "from_settings", "aborted"}
          /\ pc = "aborted" => error.stage \in {"from_env", "from_settings"}
    /\ (error.kind = "raise" /\ error.stage \in {"from_env", "from_settings"})
       => pc = "aborted" /\ NoNetworkCall /\ trail = SubSeq(Program, 1, Len(trail))

\* A run aborted by the missing cookie file, with no call made.
C2_Witness ==
    /\ pc = "aborted" /\ error.stage = "from_settings" /\ error.exc = "FileNotFoundError"
    /\ environ.cookies_path = "missing"
    /\ NoNetworkCall

\* The run has derived its five tables.
AllBuilt == Returned("build_health")

\* The row carries the configured date under the column, verbatim.
Echoes(row, column, value) == column \in DOMAIN row /\ row[column] = value

\* C11: once a run has derived its five tables, every row of each of them
\* carries the extraction_ts_utc of the run, and every row of each of them
\* carries the configured from_date (to_date) when one is configured.
C11_SameStampAndDates ==
    AllBuilt =>
        \A t \in Tables : \A i \in 1..Len(kpis[t]) :
            LET row == kpis[t][i]
            IN  /\ row.extraction_ts_utc = extraction_ts
                /\ settings.from_date # "" => Echoes(row, "from_date", settings.from_date)
                /\ settings.to_date # "" => Echoes(row, "to_date", settings.to_date)

\* The run has reached write_tables: it is in the loop, a write raised, or
\* the loop is over.
Writing == pc \in {"write_tables", "done"} \/ error.stage = "write_tables"

\* The table holds exactly the rows this run derived for it, each with the
\* run's extraction_ts_utc.
HoldsThisRun(t) ==
    /\ db[t] = Table(kpis[t])
    /\ \A i \in 1..Len(db[t].rows) : db[t].rows[i].extraction_ts_utc = extraction_ts

\* The position of the table whose write raised; 0 if no write raised.
FailedAt == IF error.stage = "write_tables" THEN written + 1 ELSE 0

\* C12: in every run of a sequence of runs, the tables are written one at a
\* time in the order of TableNames, each write replacing the table by this
\* run's rows: at every moment of write_tables the first `written` tables
\* hold this run's data and the tables not yet reached are as the previous
\* run left them; after a run that completes all five hold this run's data
\* and its one extraction_ts_utc; when the write of table k raises, the run
\* is aborted with tables 1..k-1 holding this run's data and tables k+1..5
\* the previous run's, and table k is not written again: from an ended run
\* the database changes no more.
C12_WritesInOrder ==
    /\ [](Writing =>
            /\ \A j \in 1..written : HoldsThisRun(TableNames[j])
            /\ \A j \in (written + 1)..Len(TableNames) :
                  j # FailedAt => db[TableNames[j]] = dbBefore[TableNames[j]]
            /\ pc = "done" <=> (written = Len(TableNames) /\ error.kind = "none")
            /\ FailedAt # 0
               => /\ pc = "aborted"
                  /\ error.why = TableNames[FailedAt]
                  /\ ~HoldsThisRun(TableNames[FailedAt]))
    /\ [](~Writing => db = dbBefore /\ written = 0)
    /\ [][(pc \in {"done", "aborted"}) => (db' = db)]_vars

\* The third write of a second run raised: the first two tables hold the
\* second run's data, the last two the first run's.
C12_Witness ==
    /\ run = 2 /\ pc = "aborted" /\ FailedAt = 3
    /\ \A j \in 1..2 : HoldsThisRun(TableNames[j]) /\ db[TableNames[j]].rows[1].extraction_ts_utc = 2
    /\ \A j \in 4..5 :
          /\ db[TableNames[j]].state = "present"
          /\ db[TableNames[j]].rows[1].extraction_ts_utc = 1

====
